---- MODULE Spec2Model ----
(***************************************************************************)
(* replit: a live-reload runner.  The model follows the latest variant of  *)
(* the program (src/constants.go lines 685-1064 together with src/tui.go): *)
(* ReplIt reads and validates its arguments (ReadArgs), starts the TUI,    *)
(* the editor, the file watcher and RunLanguage, then waits for a          *)
(* termination signal and tidies up.  RunLanguage                          *)
(* attaches two self re-arming listeners (sync.Cond broadcasts): one kills *)
(* the interpreter, one re-runs it on every file change.                   *)
(*                                                                         *)
(* Goroutines are interleaved statement by statement.  The closure         *)
(* variable cmd is shared by the two callbacks without a common lock; a    *)
(* second evaluation of cmd inside one callback may use the value loaded   *)
(* before or the value now in memory (both are outcomes of the race).      *)
(* time.Now() is monotonic: every reading is >= the reading before it.     *)
(***************************************************************************)
EXTENDS Integers, FiniteSets, Sequences, TLC

(* ---------------- bounds of the model ---------------- *)
\* interpreter runs (Cmd values built by exec.Command)
MaxRuns == 2
\* last clock reading (seconds)
MaxClock == 3
\* granularity of the clock readings (seconds)
ClockStep == 3

(* ---------------- program constants ---------------- *)
\* threshold := time.Second * 2
Threshold == 2

Nil == 0
Conds == {"killProcess", "fileChange"}
Keys == {"k", "q", "x"}
Streams == {"stdout", "stderr"}
\* commands that may be installed, and the interpreter the user asks for
Commands == {"code", "vim", "python"}
Lang == "python"
ProcIds == 1..MaxRuns

VARIABLES
  mpc,          \* ReplIt: "read_args".."start_loop","wait_sig","stop_app","wait_done","returned"
  isTempFile,   \* args.EditorFile.IsTempFile
  fileExists,   \* the target file is on disk
  doneGroup,    \* doneGroup counter
  epc,          \* LaunchEditor goroutine: "none","start","send","done"
  editor,       \* editor subprocess: "unstarted","failed","running","killed"
  ekpc,         \* kill-editor goroutine: "none","recv","done"
  rmpc,         \* remove-temporary-file goroutine: "none","check","done"
  appState,     \* tview application loop: "off","init","running","stopped"
  runCount,     \* tui.runCount
  runTime,      \* tui.runTime
  sinks,        \* the viewers that hold text
  starting,     \* per cond: listener goroutines spawned, not yet in cd.Wait
  waiting,      \* per cond: listener goroutines asleep in cd.Wait
  woken,        \* per cond: listener goroutines notified, re-acquiring cd.L
  condL,        \* per cond: cd.L is held
  cbpc,         \* per cond: position of the goroutine running the callback
  rlpc,         \* RunLanguage goroutine: "none","attach_kill","attach_fc","done"
  cmd,          \* the closure variable cmd of RunLanguage (Nil or a Cmd)
  procs,        \* per Cmd: "none","new","failed","running","dead","reaped"
  killedProcs,  \* processes terminated by Process.Kill
  kTarget,      \* killProcess: the cmd it loaded in its test
  fNew,         \* onFileChange: the Cmd it created
  stateTime,    \* state.Time
  stateLock,    \* state.Lock is held
  wpc,          \* watch loop: "none","check","entr","bcast","bcastFail","stopped"
  watchDone,    \* watch.Done
  clock,        \* last reading of time.Now()
  delivered,    \* fileChange broadcasts that woke a listener
  crashed,      \* "no", or the panic / fatal error that ended the program
  visual,       \* the environment variable VISUAL ("" when unset)
  onPath,       \* the commands exec.LookPath finds
  langArg,      \* the <lang> argument ("none" when it cannot be read)
  fileArg,      \* the <file> argument: "none", or a file that is "ok" / "missing"
  dirState,     \* what --directory names: "dir", "file" (not a directory), "missing"
  editorName,   \* the command LaunchEditor runs ("" before, or when GetEditor failed)
  exitCode      \* the status ReplIt has returned (-1 until it returns)

mainVars == <<mpc, isTempFile, fileExists, doneGroup, epc, editor, ekpc, rmpc>>
tuiVars == <<appState, runCount, runTime, sinks>>
condVars == <<starting, waiting, woken, condL, cbpc>>
runVars == <<rlpc, cmd, procs, killedProcs, kTarget, fNew, stateTime, stateLock>>
watchVars == <<wpc, watchDone>>
countVars == <<clock, delivered>>
startVars == <<visual, onPath, langArg, fileArg, dirState, editorName, exitCode>>
vars == <<mainVars, tuiVars, condVars, runVars, watchVars, countVars, crashed, startVars>>

\* the program is running: no panic so far and ReplIt has not returned
Alive == crashed = "no" /\ mpc # "returned"

\* an unrecovered panic (or fatal runtime error) in any goroutine ends the program
Panic(reason) ==
  /\ crashed' = reason
  /\ UNCHANGED <<mainVars, tuiVars, condVars, runVars, watchVars, countVars, startVars>>

\* time.Now(): the readings a monotonic clock can give next
TimeNow == {t \in clock..MaxClock : (t - clock) % ClockStep = 0}

\* the state when the run loop starts: ReadArgs has accepted the configuration
\* (every command installed, VISUAL unset) and ReplIt has started its goroutines
Init ==
  /\ mpc = "wait_sig"
  /\ isTempFile \in BOOLEAN
  /\ fileExists = TRUE
  /\ doneGroup = 0
  /\ epc = "start"
  /\ editor = "unstarted"
  /\ ekpc = "none"
  /\ rmpc = "none"
  /\ appState = "init"
  /\ runCount = 0
  /\ runTime = 0
  /\ sinks = Streams
  /\ starting = [c \in Conds |-> 0]
  /\ waiting = [c \in Conds |-> 0]
  /\ woken = [c \in Conds |-> 0]
  /\ condL = [c \in Conds |-> FALSE]
  /\ cbpc = [c \in Conds |-> "idle"]
  /\ rlpc = "attach_kill"
  /\ cmd = Nil
  /\ procs = [k \in ProcIds |-> "none"]
  /\ killedProcs = {}
  /\ kTarget = Nil
  /\ fNew = Nil
  /\ stateTime = 0
  /\ stateLock = FALSE
  /\ wpc = "check"
  /\ watchDone = FALSE
  /\ clock = 0
  /\ delivered = 0
  /\ crashed = "no"
  /\ visual = ""
  /\ onPath = Commands
  /\ langArg = Lang
  /\ fileArg = (IF isTempFile THEN "none" ELSE "ok")
  /\ dirState = "dir"
  /\ editorName = ""
  /\ exitCode = -1

(* ---------------- sync.Cond and attachListener (src/tui.go) ---------------- *)

\* attachListener: spawn the listener goroutine and wait until it has started
AttachListener(c) == starting' = [starting EXCEPT ![c] = @ + 1]

\* cd.Broadcast(): wake every goroutine asleep in cd.Wait; nobody else hears it
Broadcast(c) ==
  /\ woken' = [woken EXCEPT ![c] = @ + waiting[c]]
  /\ waiting' = [waiting EXCEPT ![c] = 0]

\* listener goroutine: wg.Done(); cd.L.Lock(); cd.Wait() puts it to sleep and frees cd.L
ListenerWait(c) ==
  /\ Alive
  /\ starting[c] > 0
  /\ ~condL[c]
  /\ starting' = [starting EXCEPT ![c] = @ - 1]
  /\ waiting' = [waiting EXCEPT ![c] = @ + 1]
  /\ UNCHANGED <<woken, condL, cbpc>>
  /\ UNCHANGED <<mainVars, tuiVars, runVars, watchVars, countVars, crashed>>
  /\ UNCHANGED startVars

\* the first statement of each callback
Entry(c) == IF c = "killProcess" THEN "test" ELSE "check"

\* a notified listener re-acquires cd.L inside cd.Wait and enters listener()
ListenerResume(c) ==
  /\ Alive
  /\ woken[c] > 0
  /\ ~condL[c]
  /\ woken' = [woken EXCEPT ![c] = @ - 1]
  /\ condL' = [condL EXCEPT ![c] = TRUE]
  /\ cbpc' = [cbpc EXCEPT ![c] = Entry(c)]
  /\ UNCHANGED <<starting, waiting>>
  /\ UNCHANGED <<mainVars, tuiVars, runVars, watchVars, countVars, crashed>>
  /\ UNCHANGED startVars

\* a listener that forgets to attach its successor
Reattached_None(n) == n

\* a listener that attaches two successors
Reattached_Two(n) == n + 2

\* the listeners attached when a callback has returned
Reattached(n) == n + 1

\* listener() has returned: go attachListener(cd, listener); deferred cd.L.Unlock()
ListenerReturn(c) ==
  /\ Alive
  /\ cbpc[c] = "ret"
  /\ starting' = [starting EXCEPT ![c] = Reattached(@)]
  /\ condL' = [condL EXCEPT ![c] = FALSE]
  /\ cbpc' = [cbpc EXCEPT ![c] = "idle"]
  /\ UNCHANGED <<waiting, woken>>
  /\ UNCHANGED <<mainVars, tuiVars, runVars, watchVars, countVars, crashed>>
  /\ UNCHANGED startVars

(* ---------------- RunLanguage (src/constants.go 925-987) ---------------- *)

\* cmd.Process is set: the process was started (it may have ended since)
HasHandle(st) == st \in {"running", "dead", "reaped"}

\* Process.Kill(): ends a running process; an error, ignored, on one that ended
KillProc(k) ==
  /\ procs' = [procs EXCEPT ![k] = IF @ = "running" THEN "dead" ELSE @]
  /\ killedProcs' = IF procs[k] = "running" THEN killedProcs \cup {k} ELSE killedProcs

\* RunLanguage: attachListener(tui.actions.killProcess, killProcess)
AttachKill ==
  /\ Alive
  /\ rlpc = "attach_kill"
  /\ AttachListener("killProcess")
  /\ rlpc' = "attach_fc"
  /\ UNCHANGED <<waiting, woken, condL, cbpc>>
  /\ UNCHANGED <<cmd, procs, killedProcs, kTarget, fNew, stateTime, stateLock>>
  /\ UNCHANGED <<mainVars, tuiVars, watchVars, countVars, crashed>>
  /\ UNCHANGED startVars

\* RunLanguage: attachListener(tui.actions.fileChange, onFileChange)
AttachFileChange ==
  /\ Alive
  /\ rlpc = "attach_fc"
  /\ AttachListener("fileChange")
  /\ rlpc' = "done"
  /\ UNCHANGED <<waiting, woken, condL, cbpc>>
  /\ UNCHANGED <<cmd, procs, killedProcs, kTarget, fNew, stateTime, stateLock>>
  /\ UNCHANGED <<mainVars, tuiVars, watchVars, countVars, crashed>>
  /\ UNCHANGED startVars

\* the callback of cond c moves to position p
Goto(c, p) == cbpc' = [cbpc EXCEPT ![c] = p]

(* killProcess := func() { if cmd != nil { cmd.Process.Kill(); cmd = nil } } *)

\* if cmd != nil
KillTest ==
  /\ Alive
  /\ cbpc["killProcess"] = "test"
  /\ IF cmd = Nil
       THEN Goto("killProcess", "ret") /\ UNCHANGED kTarget
       ELSE Goto("killProcess", "kill") /\ kTarget' = cmd
  /\ UNCHANGED <<starting, waiting, woken, condL>>
  /\ UNCHANGED <<rlpc, cmd, procs, killedProcs, fNew, stateTime, stateLock>>
  /\ UNCHANGED <<mainVars, tuiVars, watchVars, countVars, crashed>>
  /\ UNCHANGED startVars

\* cmd.Process.Kill()
KillKill ==
  /\ Alive
  /\ cbpc["killProcess"] = "kill"
  /\ \E c \in {kTarget, cmd} :
       IF c = Nil THEN Panic("nilCmd")
       ELSE IF ~HasHandle(procs[c]) THEN Panic("nilProcess")
       ELSE /\ KillProc(c)
            /\ Goto("killProcess", "clear")
            /\ UNCHANGED <<starting, waiting, woken, condL>>
            /\ UNCHANGED <<rlpc, cmd, kTarget, fNew, stateTime, stateLock>>
            /\ UNCHANGED <<mainVars, tuiVars, watchVars, countVars, crashed>>
  /\ UNCHANGED startVars

\* cmd = nil
KillClear ==
  /\ Alive
  /\ cbpc["killProcess"] = "clear"
  /\ cmd' = Nil
  /\ kTarget' = Nil
  /\ Goto("killProcess", "ret")
  /\ UNCHANGED <<starting, waiting, woken, condL>>
  /\ UNCHANGED <<rlpc, procs, killedProcs, fNew, stateTime, stateLock>>
  /\ UNCHANGED <<mainVars, tuiVars, watchVars, countVars, crashed>>
  /\ UNCHANGED startVars

(* onFileChange *)

\* the test with its operands the other way round: now.Sub(state.Time) > threshold
Stale_Intended(t, now) == now - t > Threshold

\* state.Time.Sub(now) > threshold
Stale(t, now) == t - now > Threshold

\* now := time.Now(); the staleness test and its kill-and-unlock branch
FcCheck ==
  /\ Alive
  /\ cbpc["fileChange"] = "check"
  /\ \E now \in TimeNow :
       IF Stale(stateTime, now) /\ cmd # Nil
         THEN IF ~HasHandle(procs[cmd]) THEN Panic("nilProcess")
              ELSE /\ KillProc(cmd)
                   /\ clock' = now
                   /\ IF stateLock
                        THEN /\ stateLock' = FALSE
                             /\ Goto("fileChange", "lock")
                             /\ crashed' = crashed
                        ELSE /\ crashed' = "unlockOfUnlocked"
                             /\ UNCHANGED <<stateLock, cbpc>>
                   /\ UNCHANGED <<starting, waiting, woken, condL>>
                   /\ UNCHANGED <<rlpc, cmd, kTarget, fNew, stateTime>>
                   /\ UNCHANGED <<mainVars, tuiVars, watchVars, delivered>>
         ELSE /\ clock' = now
              /\ Goto("fileChange", "lock")
              /\ UNCHANGED <<starting, waiting, woken, condL>>
              /\ UNCHANGED runVars
              /\ UNCHANGED <<mainVars, tuiVars, watchVars, delivered, crashed>>
  /\ UNCHANGED startVars

\* an onFileChange that goes on without taking state.Lock
Locked_Skipped(held) == held

\* state.Lock.Lock() has returned: the mutex is held
Locked(held) == TRUE

\* state.Lock.Lock()
FcLock ==
  /\ Alive
  /\ cbpc["fileChange"] = "lock"
  /\ ~stateLock
  /\ stateLock' = Locked(stateLock)
  /\ Goto("fileChange", "clear")
  /\ UNCHANGED <<starting, waiting, woken, condL>>
  /\ UNCHANGED <<rlpc, cmd, procs, killedProcs, kTarget, fNew, stateTime>>
  /\ UNCHANGED <<mainVars, tuiVars, watchVars, countVars, crashed>>
  /\ UNCHANGED startVars

\* an onFileChange that clears the stdout viewer only
Cleared_StdoutOnly(s) == s \ {"stdout"}

\* the viewers that hold text after stdoutViewer.Clear() and stderrViewer.Clear()
Cleared(s) == {}

\* stdoutViewer.Clear(); stderrViewer.Clear()
FcClear ==
  /\ Alive
  /\ cbpc["fileChange"] = "clear"
  /\ sinks' = Cleared(sinks)
  /\ Goto("fileChange", "assign")
  /\ UNCHANGED <<starting, waiting, woken, condL>>
  /\ UNCHANGED <<appState, runCount, runTime>>
  /\ UNCHANGED <<mainVars, runVars, watchVars, countVars, crashed>>
  /\ UNCHANGED startVars

\* the Cmd that exec.Command builds next
NextCmd == Cardinality({k \in ProcIds : procs[k] # "none"}) + 1

\* state.Time = now; cmd = exec.Command(args.Lang, args.EditorFile.File.Name())
FcAssign ==
  /\ Alive
  /\ cbpc["fileChange"] = "assign"
  /\ NextCmd \in ProcIds
  /\ stateTime' = clock
  /\ procs' = [procs EXCEPT ![NextCmd] = "new"]
  /\ cmd' = NextCmd
  /\ fNew' = NextCmd
  /\ Goto("fileChange", "setio")
  /\ UNCHANGED <<starting, waiting, woken, condL>>
  /\ UNCHANGED <<rlpc, killedProcs, kTarget, stateLock>>
  /\ UNCHANGED <<mainVars, tuiVars, watchVars, countVars, crashed>>
  /\ UNCHANGED startVars

\* cmd.Stdout = stdoutViewer; cmd.Stderr = stderrViewer
FcSetIO ==
  /\ Alive
  /\ cbpc["fileChange"] = "setio"
  /\ \E c \in {fNew, cmd} :
       IF c = Nil THEN Panic("nilCmd")
       ELSE /\ Goto("fileChange", "start")
            /\ UNCHANGED <<starting, waiting, woken, condL>>
            /\ UNCHANGED <<mainVars, tuiVars, runVars, watchVars, countVars, crashed>>
  /\ UNCHANGED startVars

\* startCommandTime := time.Now(); cmd.Run() starts the process, or fails to
FcStart ==
  /\ Alive
  /\ cbpc["fileChange"] = "start"
  /\ \E now \in TimeNow, c \in {fNew, cmd}, started \in BOOLEAN :
       IF c = Nil THEN Panic("nilCmd")
       ELSE /\ clock' = now
            /\ procs' = [procs EXCEPT ![c] = IF started THEN "running" ELSE "failed"]
            /\ Goto("fileChange", "wait")
            /\ UNCHANGED <<starting, waiting, woken, condL>>
            /\ UNCHANGED <<rlpc, cmd, killedProcs, kTarget, fNew, stateTime, stateLock>>
            /\ UNCHANGED <<mainVars, tuiVars, watchVars, delivered, crashed>>
  /\ UNCHANGED startVars

\* cmd.Start() in place of cmd.Run(): the call returns while the process runs
RunReturns_Start(st) == TRUE

\* a cmd.Run() that returns only when a process has ended
RunReturns_OnlyExit(st) == st = "dead"

\* cmd.Run() returns once the process has ended, or at once when it never started
RunReturns(st) == st \in {"dead", "failed"}

\* a run counted twice
UpdateRunCount_Twice(n) == n + 2

\* a counter that counts down
UpdateRunCount_Down(n) == n - 1

\* tui.runCount += 1
UpdateRunCount(n) == n + 1

\* tui.runTime = diff.Milliseconds()
UpdateRunTime(diff) == diff

\* cmd.Run() returns; commandEnd := time.Since(startCommandTime);
\* tui.UpdateRunTime(commandEnd); tui.UpdateRunCount()
FcReap ==
  /\ Alive
  /\ cbpc["fileChange"] = "wait"
  /\ RunReturns(procs[fNew])
  /\ \E now \in TimeNow :
       /\ clock' = now
       /\ runTime' = UpdateRunTime(now - clock)
  /\ runCount' = UpdateRunCount(runCount)
  /\ procs' = [procs EXCEPT ![fNew] = IF @ = "dead" THEN "reaped" ELSE @]
  /\ Goto("fileChange", "draw")
  /\ UNCHANGED <<starting, waiting, woken, condL>>
  /\ UNCHANGED <<appState, sinks>>
  /\ UNCHANGED <<rlpc, cmd, killedProcs, kTarget, fNew, stateTime, stateLock>>
  /\ UNCHANGED <<mainVars, watchVars, delivered, crashed>>
  /\ UNCHANGED startVars

\* an onFileChange that returns without state.Lock.Unlock()
Unlocked_Kept(held) == held

\* state.Lock.Unlock() has returned: the mutex is free
Unlocked(held) == FALSE

\* tui.app.Draw(); state.Lock.Unlock()
FcUnlock ==
  /\ Alive
  /\ cbpc["fileChange"] = "draw"
  /\ IF stateLock
       THEN /\ stateLock' = Unlocked(stateLock)
            /\ fNew' = Nil
            /\ Goto("fileChange", "ret")
            /\ UNCHANGED <<starting, waiting, woken, condL>>
            /\ UNCHANGED <<rlpc, cmd, procs, killedProcs, kTarget, stateTime>>
            /\ UNCHANGED <<mainVars, tuiVars, watchVars, countVars, crashed>>
       ELSE Panic("unlockOfUnlocked")
  /\ UNCHANGED startVars

(* ---------------- the interpreter process (environment) ---------------- *)

\* the interpreter exits by itself, with any status: onFileChange discards the
\* error cmd.Run() returns, so a non-zero status is handled like zero
ProcExit(k) ==
  /\ procs[k] = "running"
  /\ procs' = [procs EXCEPT ![k] = "dead"]
  /\ UNCHANGED <<rlpc, cmd, killedProcs, kTarget, fNew, stateTime, stateLock>>
  /\ UNCHANGED <<mainVars, tuiVars, condVars, watchVars, countVars, crashed>>
  /\ UNCHANGED startVars

\* the interpreter writes to cmd.Stdout / cmd.Stderr
ProcOutput(k, s) ==
  /\ Alive
  /\ procs[k] = "running"
  /\ s \notin sinks
  /\ sinks' = sinks \cup {s}
  /\ UNCHANGED <<appState, runCount, runTime>>
  /\ UNCHANGED <<mainVars, condVars, runVars, watchVars, countVars, crashed>>
  /\ UNCHANGED startVars

(* ---------------- the TUI (src/tui.go) ---------------- *)

\* go tui.Start(): the tview event loop runs
TuiStart ==
  /\ Alive
  /\ appState = "init"
  /\ appState' = "running"
  /\ UNCHANGED <<runCount, runTime, sinks>>
  /\ UNCHANGED <<mainVars, condVars, runVars, watchVars, countVars, crashed>>
  /\ UNCHANGED startVars

\* onInput: 'k' broadcasts killProcess, Escape / 'q' panics, other keys pass through
OnInput(key) ==
  /\ Alive
  /\ appState = "running"
  /\ IF key = "k"
       THEN /\ Broadcast("killProcess")
            /\ UNCHANGED <<starting, condL, cbpc>>
            /\ UNCHANGED countVars
            /\ UNCHANGED <<mainVars, tuiVars, runVars, watchVars, crashed>>
       ELSE IF key = "q"
         THEN Panic("quit")
         ELSE UNCHANGED vars
  /\ UNCHANGED startVars

(* ---------------- FileWatcher (src/constants.go 820-849) ---------------- *)

\* for { if watch.Done { return } ...
WatcherCheck ==
  /\ Alive
  /\ wpc = "check"
  /\ wpc' = IF watchDone THEN "stopped" ELSE "entr"
  /\ UNCHANGED watchDone
  /\ UNCHANGED <<mainVars, tuiVars, condVars, runVars, countVars, crashed>>
  /\ UNCHANGED startVars

\* cmd.Run() of entr returns: a watched file changed, or entr could not be launched
EntrReturns ==
  /\ Alive
  /\ wpc = "entr"
  /\ \E launched \in BOOLEAN : wpc' = IF launched THEN "bcast" ELSE "bcastFail"
  /\ UNCHANGED watchDone
  /\ UNCHANGED <<mainVars, tuiVars, condVars, runVars, countVars, crashed>>
  /\ UNCHANGED startVars

\* tui.actions.fileChange.Broadcast()
WatcherBroadcast ==
  /\ Alive
  /\ wpc \in {"bcast", "bcastFail"}
  /\ Broadcast("fileChange")
  /\ delivered' = IF waiting["fileChange"] > 0 THEN delivered + 1 ELSE delivered
  /\ wpc' = "check"
  /\ UNCHANGED watchDone
  /\ UNCHANGED <<starting, condL, cbpc>>
  /\ UNCHANGED clock
  /\ UNCHANGED <<mainVars, tuiVars, runVars, crashed>>
  /\ UNCHANGED startVars

(* ---------------- start-up (src/constants.go 765-802, 852-917, 990-1024) ---------------- *)

\* CommandExists: exec.LookPath finds the command
CommandExists(c, path) == c \in path

\* a GetEditor with no default: VISUAL is used even when it is empty
GetEditor_NoDefault(v, path) ==
  IF ~CommandExists(v, path) THEN [editor |-> "", err |-> TRUE]
  ELSE [editor |-> v, err |-> FALSE]

\* GetEditor: VISUAL when it is set, "code" otherwise; an error when that
\* command is not in PATH
GetEditor(v, path) ==
  LET name == IF v # "" THEN v ELSE "code"
  IN  IF ~CommandExists(name, path) THEN [editor |-> "", err |-> TRUE]
      ELSE [editor |-> name, err |-> FALSE]

\* ValidateLanguage: the interpreter is in PATH
ValidateLanguage(language, path) == CommandExists(language, path)

\* ListDirectory succeeds: os.Stat finds dir and it is a directory
ListDirectory(dir) == dir = "dir"

\* ReadArgs: read <lang>, check the editor, check the interpreter, open the
\* target file or create the temporary one
ReadArgs ==
  /\ Alive
  /\ mpc = "read_args"
  /\ IF langArg = "none"
       THEN /\ exitCode' = 1
            /\ mpc' = "returned"
            /\ UNCHANGED <<isTempFile, fileExists, doneGroup, epc, editor, ekpc, rmpc>>
            /\ UNCHANGED <<visual, onPath, langArg, fileArg, dirState, editorName>>
            /\ UNCHANGED <<tuiVars, condVars, runVars, watchVars, countVars, crashed>>
       ELSE IF GetEditor(visual, onPath).err THEN Panic("noEditor")
       ELSE IF ~ValidateLanguage(langArg, onPath) THEN Panic("noLanguage")
       ELSE IF fileArg = "missing" THEN Panic("noFile")
       ELSE \E created \in BOOLEAN :
              IF fileArg = "none" /\ ~created THEN Panic("noTempFile")
              ELSE /\ isTempFile' = (fileArg = "none")
                   /\ fileExists' = TRUE
                   /\ mpc' = "spawn_tui"
                   /\ UNCHANGED <<doneGroup, epc, editor, ekpc, rmpc>>
                   /\ UNCHANGED <<tuiVars, condVars, runVars, watchVars, countVars, crashed>>
                   /\ UNCHANGED startVars

\* tui := NewUI(&args); go tui.Start()
SpawnTui ==
  /\ Alive
  /\ mpc = "spawn_tui"
  /\ appState' = "init"
  /\ mpc' = "spawn_editor"
  /\ UNCHANGED <<runCount, runTime, sinks>>
  /\ UNCHANGED <<isTempFile, fileExists, doneGroup, epc, editor, ekpc, rmpc>>
  /\ UNCHANGED <<condVars, runVars, watchVars, countVars, crashed, startVars>>

\* editorChan := make(chan *exec.Cmd); go LaunchEditor(editorChan, args.EditorFile)
SpawnEditor ==
  /\ Alive
  /\ mpc = "spawn_editor"
  /\ epc' = "start"
  /\ mpc' = "observe"
  /\ UNCHANGED <<isTempFile, fileExists, doneGroup, editor, ekpc, rmpc>>
  /\ UNCHANGED <<tuiVars, condVars, runVars, watchVars, countVars, crashed, startVars>>

\* fileWatcher, err := ObserveFileChanges(&args, tui); if err != nil { panic(err) }
ObserveFileChanges ==
  /\ Alive
  /\ mpc = "observe"
  /\ IF ~isTempFile /\ ~ListDirectory(dirState) THEN Panic("noDirectory")
     ELSE /\ mpc' = "start_loop"
          /\ UNCHANGED <<isTempFile, fileExists, doneGroup, epc, editor, ekpc, rmpc>>
          /\ UNCHANGED <<tuiVars, condVars, runVars, watchVars, countVars, crashed, startVars>>

\* go fileWatcher.Start(tui); go RunLanguage(&args, tui, &state)
StartLoop ==
  /\ Alive
  /\ mpc = "start_loop"
  /\ wpc' = "check"
  /\ rlpc' = "attach_kill"
  /\ mpc' = "wait_sig"
  /\ UNCHANGED watchDone
  /\ UNCHANGED <<cmd, procs, killedProcs, kTarget, fNew, stateTime, stateLock>>
  /\ UNCHANGED <<isTempFile, fileExists, doneGroup, epc, editor, ekpc, rmpc>>
  /\ UNCHANGED <<tuiVars, condVars, countVars, crashed, startVars>>

(* ---------------- ReplIt (src/constants.go 990-1064) ---------------- *)

\* editor, _ := GetEditor(); cmd.Start() of the editor: the process runs, or
\* Start failed and cmd.Process is nil
LaunchEditor ==
  /\ Alive
  /\ epc = "start"
  /\ editorName' = GetEditor(visual, onPath).editor
  /\ \E started \in BOOLEAN :
       /\ started => editorName' \in onPath
       /\ editor' = IF started THEN "running" ELSE "failed"
  /\ epc' = "send"
  /\ UNCHANGED <<mpc, isTempFile, fileExists, doneGroup, ekpc, rmpc>>
  /\ UNCHANGED <<tuiVars, condVars, runVars, watchVars, countVars, crashed>>
  /\ UNCHANGED <<visual, onPath, langArg, fileArg, dirState, exitCode>>

\* a WaitGroup that counts one goroutine fewer than are started
DoneGroupAdd_One(n) == n + 1

\* doneGroup.Add(2)
DoneGroupAdd(n) == n + 2

\* <-sigs; close(sigs); doneGroup.Add(2); the two cleanup goroutines are started
Signal ==
  /\ Alive
  /\ mpc = "wait_sig"
  /\ doneGroup' = DoneGroupAdd(doneGroup)
  /\ ekpc' = "recv"
  /\ rmpc' = "check"
  /\ mpc' = "stop_app"
  /\ UNCHANGED <<isTempFile, fileExists, epc, editor>>
  /\ UNCHANGED <<tuiVars, condVars, runVars, watchVars, countVars, crashed>>
  /\ UNCHANGED startVars

\* editor := <-editorChan meets editorChan <- cmd of LaunchEditor (unbuffered);
\* editor.Process.Kill(); close(editorChan); deferred doneGroup.Done()
KillEditor ==
  /\ Alive
  /\ ekpc = "recv"
  /\ epc = "send"
  /\ IF editor = "failed" THEN Panic("nilEditor")
     ELSE /\ editor' = "killed"
          /\ epc' = "done"
          /\ ekpc' = "done"
          /\ doneGroup' = doneGroup - 1
          /\ UNCHANGED <<mpc, isTempFile, fileExists, rmpc>>
          /\ UNCHANGED <<tuiVars, condVars, runVars, watchVars, countVars, crashed>>
  /\ UNCHANGED startVars

\* the file os.Remove is called on survives only if it was not temporary
Removes(temp) == temp

\* if targetFile.IsTempFile { os.Remove(name) }; deferred doneGroup.Done()
RemoveTempFile ==
  /\ Alive
  /\ rmpc = "check"
  /\ fileExists' = IF Removes(isTempFile) THEN FALSE ELSE fileExists
  /\ rmpc' = "done"
  /\ doneGroup' = doneGroup - 1
  /\ UNCHANGED <<mpc, isTempFile, epc, editor, ekpc>>
  /\ UNCHANGED <<tuiVars, condVars, runVars, watchVars, countVars, crashed>>
  /\ UNCHANGED startVars

\* tui.app.Stop()
StopApp ==
  /\ Alive
  /\ mpc = "stop_app"
  /\ appState' = IF appState = "running" THEN "stopped" ELSE appState
  /\ mpc' = "wait_done"
  /\ UNCHANGED <<runCount, runTime, sinks>>
  /\ UNCHANGED <<isTempFile, fileExists, doneGroup, epc, editor, ekpc, rmpc>>
  /\ UNCHANGED <<condVars, runVars, watchVars, countVars, crashed>>
  /\ UNCHANGED startVars

\* a shutdown that does not wait for its goroutines
WaitDone_NoWait(n) == TRUE

\* doneGroup.Wait() lets go when the counter is zero
WaitDone(n) == n = 0

\* doneGroup.Wait(); return 0
Return ==
  /\ Alive
  /\ mpc = "wait_done"
  /\ WaitDone(doneGroup)
  /\ mpc' = "returned"
  /\ exitCode' = 0
  /\ UNCHANGED <<isTempFile, fileExists, doneGroup, epc, editor, ekpc, rmpc>>
  /\ UNCHANGED <<tuiVars, condVars, runVars, watchVars, countVars, crashed>>
  /\ UNCHANGED <<visual, onPath, langArg, fileArg, dirState, editorName>>

(* ---------------- the system ---------------- *)

\* RunLanguage, its listeners, the watch loop and the interpreter process
RunLoop ==
  \/ \E c \in Conds : ListenerWait(c)
  \/ \E c \in Conds : ListenerResume(c)
  \/ \E c \in Conds : ListenerReturn(c)
  \/ AttachKill
  \/ AttachFileChange
  \/ FcCheck
  \/ FcLock
  \/ FcClear
  \/ FcAssign
  \/ FcSetIO
  \/ FcStart
  \/ FcReap
  \/ FcUnlock
  \/ \E k \in ProcIds : ProcExit(k)
  \/ TuiStart
  \/ WatcherCheck
  \/ EntrReturns
  \/ WatcherBroadcast

\* the program while ReplIt waits for the termination signal, with its user
\* (key presses) and the output of the interpreter
Next ==
  \/ RunLoop
  \/ KillTest
  \/ KillKill
  \/ KillClear
  \/ \E k \in ProcIds, s \in Streams : ProcOutput(k, s)
  \/ \E key \in Keys : OnInput(key)

Spec == Init /\ [][Next]_vars

\* the program from start to the return of ReplIt: the termination signal may
\* arrive at any time.  Key presses and interpreter output are left out: they
\* touch nothing the shutdown sequence reads or writes.
ShutdownNext ==
  \/ RunLoop
  \/ LaunchEditor
  \/ Signal
  \/ KillEditor
  \/ RemoveTempFile
  \/ StopApp
  \/ Return

ShutdownSpec == Init /\ [][ShutdownNext]_vars

(* ---------------- the channel variant (src/constants.go 469-483, 559-683) ---------------- *)
\* The earlier variant signals changes on the unbuffered channel changeChan
\* instead of the fileChange cond.  Its watch loop, the body of its
\* RunLanguage loop and its shutdown sequence are statement for statement
\* those of the latest variant, so their actions are shared; cbpc["fileChange"]
\* is the position of the RunLanguage loop ("idle": blocked in <-changeChan),
\* and there is no kill callback.

\* close(changeChan) has been executed: it directly follows <-sigs
ChanClosed == mpc \in {"stop_app", "wait_done", "returned"}

\* changeChan <- true: it meets <-changeChan of RunLanguage, or panics when
\* the channel has been closed
ChanSend ==
  /\ Alive
  /\ wpc \in {"bcast", "bcastFail"}
  /\ IF ChanClosed THEN Panic("sendOnClosed")
     ELSE /\ cbpc["fileChange"] = "idle"
          /\ Goto("fileChange", "check")
          /\ wpc' = "check"
          /\ delivered' = delivered + 1
          /\ UNCHANGED <<starting, waiting, woken, condL>>
          /\ UNCHANGED <<watchDone, clock>>
          /\ UNCHANGED <<mainVars, tuiVars, runVars, crashed, startVars>>

\* <-changeChan on the closed channel returns at once
ChanRecvClosed ==
  /\ Alive
  /\ ChanClosed
  /\ cbpc["fileChange"] = "idle"
  /\ Goto("fileChange", "check")
  /\ UNCHANGED <<starting, waiting, woken, condL>>
  /\ UNCHANGED <<mainVars, tuiVars, runVars, watchVars, countVars, crashed, startVars>>

\* for { ... }: the loop of RunLanguage goes round
ChanLoop ==
  /\ Alive
  /\ cbpc["fileChange"] = "ret"
  /\ Goto("fileChange", "idle")
  /\ UNCHANGED <<starting, waiting, woken, condL>>
  /\ UNCHANGED <<mainVars, tuiVars, runVars, watchVars, countVars, crashed, startVars>>

\* the channel variant from the start of the run loop to the return of ReplIt
ChannelNext ==
  \/ WatcherCheck
  \/ EntrReturns
  \/ ChanSend
  \/ ChanRecvClosed
  \/ ChanLoop
  \/ FcCheck
  \/ FcLock
  \/ FcClear
  \/ FcAssign
  \/ FcSetIO
  \/ FcStart
  \/ FcReap
  \/ FcUnlock
  \/ \E k \in ProcIds : ProcExit(k)
  \/ TuiStart
  \/ LaunchEditor
  \/ Signal
  \/ KillEditor
  \/ RemoveTempFile
  \/ StopApp
  \/ Return

ChannelSpec == Init /\ [][ChannelNext]_vars

\* the process is started with any environment and any arguments
StartupInit ==
  /\ mpc = "read_args"
  /\ visual \in {"", "vim", "code"}
  /\ onPath \in SUBSET Commands
  /\ langArg \in {"none", Lang}
  /\ fileArg \in {"none", "ok", "missing"}
  /\ dirState \in {"dir", "file", "missing"}
  /\ editorName = ""
  /\ exitCode = -1
  /\ isTempFile = FALSE
  /\ fileExists = (fileArg = "ok")
  /\ doneGroup = 0
  /\ epc = "none"
  /\ editor = "unstarted"
  /\ ekpc = "none"
  /\ rmpc = "none"
  /\ appState = "off"
  /\ runCount = 0
  /\ runTime = 0
  /\ sinks = Streams
  /\ starting = [c \in Conds |-> 0]
  /\ waiting = [c \in Conds |-> 0]
  /\ woken = [c \in Conds |-> 0]
  /\ condL = [c \in Conds |-> FALSE]
  /\ cbpc = [c \in Conds |-> "idle"]
  /\ rlpc = "none"
  /\ cmd = Nil
  /\ procs = [k \in ProcIds |-> "none"]
  /\ killedProcs = {}
  /\ kTarget = Nil
  /\ fNew = Nil
  /\ stateTime = 0
  /\ stateLock = FALSE
  /\ wpc = "none"
  /\ watchDone = FALSE
  /\ clock = 0
  /\ delivered = 0
  /\ crashed = "no"

\* ReplIt from its first statement to the start of the run loop
StartupNext ==
  \/ ReadArgs
  \/ SpawnTui
  \/ SpawnEditor
  \/ ObserveFileChanges
  \/ StartLoop
  \/ TuiStart
  \/ LaunchEditor

StartupSpec == StartupInit /\ [][StartupNext]_vars

\* the Go scheduler runs every goroutine that can take a step; the user, the
\* watched files and the interpreter owe nothing
Fairness ==
  /\ \A c \in Conds : WF_vars(ListenerWait(c))
  /\ \A c \in Conds : WF_vars(ListenerResume(c))
  /\ \A c \in Conds : WF_vars(ListenerReturn(c))
  /\ WF_vars(AttachKill)
  /\ WF_vars(AttachFileChange)
  /\ WF_vars(KillTest)
  /\ WF_vars(KillKill)
  /\ WF_vars(KillClear)
  /\ WF_vars(FcCheck)
  /\ WF_vars(FcLock)
  /\ WF_vars(FcClear)
  /\ WF_vars(FcAssign)
  /\ WF_vars(FcSetIO)
  /\ WF_vars(FcStart)
  /\ WF_vars(FcReap)
  /\ WF_vars(FcUnlock)
  /\ WF_vars(WatcherCheck)
  /\ WF_vars(WatcherBroadcast)
  /\ WF_vars(TuiStart)

FairSpec == Spec /\ Fairness

(* ---------------- views of the state ---------------- *)

\* interpreter processes that are running
Running == {k \in ProcIds : procs[k] = "running"}

\* interpreter processes started and not yet reaped by cmd.Run
InFlight == {k \in ProcIds : procs[k] \in {"running", "dead"}}

\* calls of cmd.Run that have returned
Returned ==
  {k \in ProcIds : \/ procs[k] = "reaped"
                   \/ procs[k] = "failed" /\ ~(k = fNew /\ cbpc["fileChange"] = "wait")}

\* no onFileChange is executing
Idle == cbpc["fileChange"] = "idle"

\* listener goroutines of cond c: starting, asleep, notified or in the callback
Listeners(c) ==
  starting[c] + waiting[c] + woken[c] + (IF cbpc[c] = "idle" THEN 0 ELSE 1)

(* ---------------- claims ---------------- *)

\* C1 single-flight: at most one interpreter process is started and not yet
\* reaped, and while one is in flight the run slot (state.Lock) is held, so a
\* change event that arrives during a run starts no second process before the
\* first has been reaped and the slot released.
C1_SingleFlight ==
  /\ Cardinality(InFlight) <= 1
  /\ (InFlight # {} /\ crashed = "no") => stateLock

\* C1: a second run is in flight after the first was reaped, and the watch
\* loop is about to signal a further change during it
C1_Witness ==
  /\ procs[1] = "reaped"
  /\ procs[2] = "running"
  /\ wpc = "bcast"
  /\ delivered = 2

\* C2 as claimed: the step that reaps a killed run leaves runCount and runTime
\* as they were
C2_KilledRunNotCounted ==
  [][(cbpc["fileChange"] = "wait" /\ cbpc'["fileChange"] = "draw" /\ fNew \in killedProcs)
       => (runCount' = runCount /\ runTime' = runTime)]_vars

C4_KillMidSpawnIsSafe ==
  ~(crashed \in {"nilProcess", "nilCmd"} /\ cbpc["fileChange"] \in {"setio", "start"})

\* C5 as claimed: a change event signalled while an interpreter run is in
\* flight is not dropped: after the broadcast it is pending for a listener
C5_EventDuringRunIsKept ==
  [][(wpc \in {"bcast", "bcastFail"} /\ wpc' = "check" /\ cbpc["fileChange"] = "wait")
       => woken'["fileChange"] > 0]_vars

\* C6 as claimed: a kill handled while no interpreter process is in flight and
\* the scheduler is idle does not panic
C6_KillWhenNothingRunsIsSafe ==
  ~(crashed \in {"nilProcess", "nilCmd"} /\ Idle /\ InFlight = {})

C8_ReArming ==
  /\ [](rlpc = "done" => Listeners("fileChange") = 1)
  /\ [][(wpc \in {"bcast", "bcastFail"} /\ wpc' = "check" /\ waiting["fileChange"] = 1)
          => woken'["fileChange"] = 1]_vars
  /\ (crashed = "no" /\ Idle /\ runCount >= 1)
        ~> (waiting["fileChange"] > 0 \/ woken["fileChange"] > 0 \/ ~Idle \/ crashed # "no")
  /\ (crashed = "no" /\ woken["fileChange"] > 0 /\ NextCmd \in ProcIds)
        ~> (cbpc["fileChange"] = "wait" \/ crashed # "no")

\* C8: run 2 is in flight after change event 1 was followed by a completed run
C8_Witness ==
  /\ crashed = "no"
  /\ runCount = 1
  /\ delivered = 2
  /\ procs[1] = "reaped"
  /\ procs[2] = "running"
  /\ waiting["fileChange"] = 0

\* C9 cleanup guarantee: once ReplIt has returned the target file is gone if
\* and only if it was temporary; a file that is not temporary is never
\* deleted; nothing is deleted before the termination signal
C9_CleanupGuarantee ==
  /\ mpc = "returned" => (fileExists <=> ~isTempFile)
  /\ ~isTempFile => fileExists
  /\ mpc = "wait_sig" => fileExists

\* C9: ReplIt has returned after removing a temporary file
C9_Witness ==
  /\ mpc = "returned"
  /\ isTempFile
  /\ ~fileExists
  /\ editor = "killed"

\* C10 as claimed: once the shutdown sequence has returned no interpreter
\* process started by RunLanguage is still running
C10_ShutdownKillsInterpreter ==
  mpc = "returned" => Running = {}

\* C11 as claimed: once the shutdown sequence has returned, no entr subprocess
\* started by the watch loop is left running (the loop is not inside cmd.Run)
C11_ShutdownStopsWatcher ==
  mpc = "returned" => wpc # "entr"

C13_ShutdownSurvivesFailedEditor ==
  ~(crashed = "nilEditor" /\ editor = "failed" /\ mpc \in {"stop_app", "wait_done"})

\* the panics and the exit status that report a configuration error
ConfigError ==
  \/ crashed \in {"noEditor", "noLanguage", "noFile", "noTempFile", "noDirectory"}
  \/ exitCode > 0

\* C14 as claimed: when a configuration error is raised no editor subprocess
\* is running, no temporary file has been created, and neither the watch loop
\* nor RunLanguage nor an interpreter has been started
C14_ConfigErrorLeavesNothing ==
  ConfigError =>
     /\ editor # "running"
     /\ ~isTempFile
     /\ wpc = "none"
     /\ rlpc = "none"
     /\ \A k \in ProcIds : procs[k] = "none"

\* C15 transient run error: when cmd.Run() returns because the interpreter
\* exited (with any status) or could not be started, the run is counted
\* (runCount + 1, runTime set to the time since the start) without a crash,
\* and the scheduler goes on to release state.Lock and to wait, idle, for the
\* next change event
C15_RunErrorNotFatal ==
  /\ [][(cbpc["fileChange"] = "wait" /\ cbpc'["fileChange"] = "draw")
          => /\ runCount' = runCount + 1
             /\ runTime' = clock' - clock
             /\ crashed' = "no"]_vars
  /\ (crashed = "no" /\ cbpc["fileChange"] = "wait" /\ procs[fNew] \in {"dead", "failed"})
        ~> ((Idle /\ ~stateLock /\ waiting["fileChange"] > 0) \/ crashed # "no")

\* C15: the first interpreter could not be started, its run was counted, and
\* the next change event has started the second interpreter
C15_Witness ==
  /\ crashed = "no"
  /\ procs[1] = "failed"
  /\ procs[2] = "running"
  /\ runCount = 1
  /\ killedProcs = {}

\* C16 as claimed: when entr could not be launched in a watch cycle, the watch
\* loop wakes no fileChange listener for that cycle, so no interpreter run
\* follows from the failure
C16_FailedLaunchSignalsNothing ==
  [][wpc = "bcastFail" => woken'["fileChange"] = woken["fileChange"]]_vars

\* C17 as claimed: runCount changes only in a step after which the process
\* of the current run has been reaped
C17_CountedOnlyAfterReap ==
  [][runCount' # runCount => procs'[fNew] = "reaped"]_vars

\* C17 amended: runCount is never negative, every step leaves it unchanged or
\* adds exactly 1, and it is increased only by onFileChange in the step in
\* which cmd.Run() has returned: the process has been reaped, or the
\* interpreter could not be started
C17_RunCountMonotone ==
  /\ [](runCount >= 0)
  /\ [][\/ runCount' = runCount
        \/ /\ runCount' = runCount + 1
           /\ cbpc["fileChange"] = "wait"
           /\ cbpc'["fileChange"] = "draw"
           /\ procs'[fNew] \in {"reaped", "failed"}]_vars

\* C17: two runs have been counted, one whose interpreter could not be
\* started and one whose process was reaped
C17_Witness ==
  /\ runCount = 2
  /\ procs[1] = "failed"
  /\ procs[2] = "reaped"

\* the editor command the environment selects
Preferred == IF visual # "" THEN visual ELSE "code"

\* C18 GetEditor: the error is nil exactly when the selected command (VISUAL
\* when it is non-empty, "code" otherwise) is in PATH; then that command is
\* returned, and otherwise the empty string with an error.  ReadArgs goes on
\* only without the error, and LaunchEditor runs the command returned
C18_GetEditor ==
  LET r == GetEditor(visual, onPath)
  IN  /\ ~r.err <=> Preferred \in onPath
      /\ ~r.err => r.editor = Preferred
      /\ r.err => r.editor = ""
      /\ crashed = "noEditor" => r.err
      /\ (crashed = "no" /\ mpc \notin {"read_args", "returned"}) => ~r.err
      /\ epc = "send" => editorName = Preferred

\* C18: VISUAL is unset, "code" is installed and "vim" is not, and
\* LaunchEditor has started the default editor
C18_Witness ==
  /\ visual = ""
  /\ onPath = {"code", Lang}
  /\ editorName = "code"
  /\ editor = "running"

\* C19 run slot: while an interpreter process is running, or is waited for, or
\* the statistics are being updated and the display refreshed, onFileChange
\* holds state.Lock; the lock is released only by the Unlock that follows the
\* statistics update and tui.app.Draw()
C19_LockHeldForWholeRun ==
  /\ [](crashed = "no" =>
         /\ Running # {} => stateLock
         /\ cbpc["fileChange"] \in {"clear", "assign", "setio", "start", "wait", "draw"}
              => stateLock)
  /\ [][(stateLock /\ ~stateLock')
          => /\ cbpc["fileChange"] = "draw"
             /\ cbpc'["fileChange"] = "ret"
             /\ fNew # Nil
             /\ procs[fNew] \in {"reaped", "failed"}]_vars

\* C19: the first run is over and its statistics are written, the display
\* is being refreshed and the lock is still held
C19_Witness ==
  /\ crashed = "no"
  /\ cbpc["fileChange"] = "draw"
  /\ runCount = 1
  /\ procs[1] = "reaped"
  /\ stateLock

\* C20 as claimed: whenever the run slot (state.Lock) is free, the
\* active-process reference cmd is nil
C20_FreeSlotMeansNoProcess ==
  ~stateLock => cmd = Nil

\* the order of the statements of onFileChange, as pairs of positions
FcOrder ==
  {<<"idle", "check">>, <<"check", "lock">>, <<"lock", "clear">>,
   <<"clear", "assign">>, <<"assign", "setio">>, <<"setio", "start">>,
   <<"start", "wait">>, <<"wait", "draw">>, <<"draw", "ret">>, <<"ret", "idle">>}

\* C21 order of a run: onFileChange moves through its statements in the
\* order lock, clear, record the start time and build the command, spawn,
\* wait, update the statistics, draw, unlock; each effect happens in its own
\* step and nowhere else; and when an interpreter process is spawned the lock
\* is held and both viewers are empty
C21_RunStepsInOrder ==
  /\ [][cbpc'["fileChange"] # cbpc["fileChange"]
          => <<cbpc["fileChange"], cbpc'["fileChange"]>> \in FcOrder]_vars
  /\ [][(~stateLock /\ stateLock')
          => (cbpc["fileChange"] = "lock" /\ cbpc'["fileChange"] = "clear")]_vars
  /\ [][(cbpc["fileChange"] = "clear" /\ cbpc'["fileChange"] = "assign")
          => (stateLock /\ sinks' = {})]_vars
  /\ [][(cbpc["fileChange"] = "assign" /\ cbpc'["fileChange"] = "setio")
          => (stateTime' = clock /\ sinks = {})]_vars
  /\ [][(\E k \in ProcIds : procs[k] # "running" /\ procs'[k] = "running")
          => /\ cbpc["fileChange"] = "start"
             /\ cbpc'["fileChange"] = "wait"
             /\ stateLock
             /\ sinks = {}]_vars
  /\ [][(runCount' # runCount \/ runTime' # runTime)
          => (cbpc["fileChange"] = "wait" /\ cbpc'["fileChange"] = "draw")]_vars
  /\ [][(stateLock /\ ~stateLock')
          => (cbpc["fileChange"] = "draw" /\ cbpc'["fileChange"] = "ret")]_vars

\* C21: the first run is over and counted, and the second interpreter has
\* been spawned, under the lock, into viewers that are still empty
C21_Witness ==
  /\ crashed = "no"
  /\ procs[1] = "reaped"
  /\ procs[2] = "running"
  /\ sinks = {}
  /\ runCount = 1
  /\ stateLock

\* killProcess is at a statement that reads or writes cmd
KillAtCmd == cbpc["killProcess"] \in {"test", "kill", "clear"}

\* onFileChange is at a statement that reads or writes cmd
FcAtCmd == cbpc["fileChange"] \in {"assign", "setio", "start"}

\* C22 as claimed: the kill callback and the file-change callback are never
\* both at a statement that accesses cmd
C22_CmdAccessesExcludeEachOther ==
  ~(crashed = "no" /\ KillAtCmd /\ FcAtCmd)

C24_LockDiscipline ==
  /\ [](crashed # "unlockOfUnlocked")
  /\ [](cbpc["fileChange"] \in {"idle", "check", "lock", "ret"} => ~stateLock)
  /\ [][stateLock' # stateLock
          => IF stateLock'
               THEN cbpc["fileChange"] = "lock" /\ cbpc'["fileChange"] = "clear"
               ELSE cbpc["fileChange"] = "draw" /\ cbpc'["fileChange"] = "ret"]_vars

\* C24: two executions of onFileChange have locked and unlocked, one of them
\* with its interpreter killed by a kill request, and the scheduler is idle
\* with the lock free
C24_Witness ==
  /\ crashed = "no"
  /\ Idle
  /\ runCount = 2
  /\ killedProcs # {}
  /\ ~stateLock

\* C25 self re-arming listeners: each cond has at most one listener goroutine
\* (started, waiting, notified or running the callback), and exactly one once
\* RunLanguage has attached it; the step in which a callback returns attaches
\* exactly one new listener; a broadcast attaches none
C25_OneListenerPerCond ==
  /\ [](\A c \in Conds :
          /\ Listeners(c) <= 1
          /\ rlpc = "done" => Listeners(c) = 1)
  /\ [][\A c \in Conds :
          /\ (cbpc[c] = "ret" /\ cbpc'[c] = "idle") => starting'[c] = starting[c] + 1
          /\ starting'[c] > starting[c]
               => (cbpc[c] = "ret" \/ (starting[c] = 0 /\ rlpc # "done"))]_vars

\* C25: after two change events and a kill request have been handled, each
\* cond has its one listener waiting again
C25_Witness ==
  /\ crashed = "no"
  /\ runCount = 2
  /\ killedProcs # {}
  /\ waiting["killProcess"] = 1
  /\ waiting["fileChange"] = 1

\* C26 as claimed: once the termination signal has been received, no step
\* spawns an interpreter process
C26_NoSpawnAfterSignal ==
  [][mpc # "wait_sig"
       => \A k \in ProcIds : procs'[k] = "running" => procs[k] = "running"]_vars

\* C27 as claimed: in the channel variant the watch loop never executes a
\* send on changeChan after ReplIt has closed it
C27_NoSendOnClosedChannel ==
  crashed # "sendOnClosed"

====
